---- MODULE Spec2Model ----
(***************************************************************************)
(* Model of update_xcode_project.py: generate_file_references() walks the  *)
(* static dict swift_files, probes the filesystem once per entry with      *)
(* os.path.exists, prints one status line per entry and then a fixed block *)
(* of instructions.                                                        *)
(*                                                                         *)
(* A path string is modelled by the sequence of its "/"-separated          *)
(* components ("Models/Phase.swift" is <<"Models", "Phase.swift">>); a     *)
(* leading "/" gives an empty first component, as str.split("/") does.     *)
(* String concatenation around a "/" is concatenation of the sequences.    *)
(* A printed line is a record [mark, path, text]: the marker glyph, the    *)
(* interpolated path, and the literal text that follows.                   *)
(***************************************************************************)
EXTENDS Integers, Sequences, FiniteSets

VARIABLES
    swift_files,  \* the local dict, as its sequence of <<key, value>> items
    fs,           \* the filesystem: the set of paths that exist
    pc,           \* position of the run
    i,            \* index of the next dict item the for loop visits
    j,            \* index of the next print of the instruction block
    out,          \* standard output: the sequence of lines printed so far
    probed,       \* paths handed to os.path.exists so far, in order
    exitCode,     \* process exit status; NoExit while running
    second,       \* TRUE in the second of two consecutive runs
    prevOut,      \* output of the first run, kept for comparison
    prevFs        \* filesystem of the first run, kept for comparison

vars == <<swift_files, fs, pc, i, j, out, probed, exitCode, second, prevOut, prevFs>>

\* Largest number of mapped files by which a filesystem departs from
\* "all present" or "all absent".
MaxFlip == 2

NoExit == -1

-----------------------------------------------------------------------------
(* Glyphs and fixed text *)

CheckMark == "U+2705"
CrossMark == "U+274C"
NotFoundSuffix == " - NOT FOUND"

\* "=" * 50
Rule == "=================================================="

TextLine(s) == [mark |-> "", path |-> <<>>, text |-> s]

\* print(s): one output line per "\n"-separated segment of s.
PrintLines(segments) == [k \in 1..Len(segments) |-> TextLine(segments[k])]

-----------------------------------------------------------------------------
(* The dict literal *)

SwiftFilesLiteral_AbsoluteKey ==
    << << <<"", "Models", "Phase.swift">>, "Phase.swift" >>,
       << <<"Models", "Schedule.swift">>, "Schedule.swift" >> >>

SwiftFilesLiteral ==
    << << <<"Models", "Phase.swift">>, "Phase.swift" >>,
       << <<"Models", "Schedule.swift">>, "Schedule.swift" >>,
       << <<"Models", "SessionRecord.swift">>, "SessionRecord.swift" >>,
       << <<"Models", "PendingTransition.swift">>, "PendingTransition.swift" >>,
       << <<"Models", "DailyStats.swift">>, "DailyStats.swift" >>,
       << <<"Services", "TimerEngine.swift">>, "TimerEngine.swift" >>,
       << <<"Services", "SessionManager.swift">>, "SessionManager.swift" >>,
       << <<"Services", "TransitionManager.swift">>, "TransitionManager.swift" >>,
       << <<"Services", "NotificationService.swift">>, "NotificationService.swift" >>,
       << <<"ViewModels", "PhaseCoordinator.swift">>, "PhaseCoordinator.swift" >>,
       << <<"Views", "MenuBarView.swift">>, "MenuBarView.swift" >>,
       << <<"Views", "SettingsView.swift">>, "SettingsView.swift" >>,
       << <<"Views", "Components", "HeaderView.swift">>, "HeaderView.swift" >>,
       << <<"Views", "Components", "ActiveSessionView.swift">>, "ActiveSessionView.swift" >>,
       << <<"Views", "Components", "StatsView.swift">>, "StatsView.swift" >>,
       << <<"Views", "Components", "ControlsView.swift">>, "ControlsView.swift" >>,
       << <<"Views", "Components", "FooterView.swift">>, "FooterView.swift" >>,
       << <<"Utilities", "TimeFormatter.swift">>, "TimeFormatter.swift" >> >>

\* Building a dict from a literal: a repeated key keeps its first position
\* and takes the last value.
RECURSIVE DictFromPairs(_)
DictFromPairs(pairs) ==
    IF pairs = <<>> THEN <<>>
    ELSE LET n    == Len(pairs)
             last == pairs[n]
             init == DictFromPairs(SubSeq(pairs, 1, n - 1))
         IN  IF \E k \in 1..Len(init) : init[k][1] = last[1]
             THEN [k \in 1..Len(init) |->
                      IF init[k][1] = last[1] THEN <<init[k][1], last[2]>> ELSE init[k]]
             ELSE Append(init, last)

Items_Reversed(d) == [k \in 1..Len(d) |-> d[Len(d) + 1 - k]]

\* dict.items(): insertion order.
Items(d) == d

Keys(d) == {d[k][1] : k \in 1..Len(d)}

-----------------------------------------------------------------------------
(* Paths and the filesystem *)

\* "/Users/vladislav_k/Code/Personal/MoveIt/"
BaseDir == <<"", "Users", "vladislav_k", "Code", "Personal", "MoveIt">>

\* f"MoveIt/{path}"
FullPath(path) == <<"MoveIt">> \o path

ProbePath_NoProjectFolder(full_path) == BaseDir \o Tail(full_path)

\* f"/Users/vladislav_k/Code/Personal/MoveIt/{full_path}"
ProbePath(full_path) == BaseDir \o full_path

Exists_Negated(p) == p \notin fs

\* os.path.exists(p)
Exists(p) == p \in fs

Prefixes(p) == {SubSeq(p, 1, k) : k \in 1..Len(p)}

FsAfterProbe_Creates(p) == fs \cup Prefixes(p)

\* os.path.exists only reads.
FsAfterProbe(p) == fs

SuccessLine(full_path) == [mark |-> CheckMark, path |-> full_path, text |-> ""]

FailureLine_NoSuffix(full_path) == [mark |-> CrossMark, path |-> full_path, text |-> ""]

FailureLine(full_path) == [mark |-> CrossMark, path |-> full_path, text |-> NotFoundSuffix]

-----------------------------------------------------------------------------
(* The prints around the loop *)

\* Lines 43-44.
HeaderPrints ==
    << <<"New Swift files to add to Xcode project:">>,
       <<Rule>> >>

InstructionPrints_Repeated ==
    << <<"", Rule>>,
       <<"", "To add these files to Xcode:">>,
       <<"1. Open MoveIt.xcodeproj in Xcode">>,
       <<"1. Open MoveIt.xcodeproj in Xcode">>,
       <<"2. Right-click on the MoveIt folder in the project navigator">>,
       <<"3. Select 'Add Files to MoveIt...'">>,
       <<"4. Navigate to each folder (Models, Services, etc.) and add all .swift files">>,
       <<"5. Make sure 'Copy items if needed' is UNCHECKED">>,
       <<"6. Make sure 'Add to targets: MoveIt' is CHECKED">>,
       <<"", "Alternatively, drag and drop the folders into Xcode project navigator">> >>

\* Lines 53-61: the argument of each print, split at its "\n".
InstructionPrints ==
    << <<"", Rule>>,
       <<"", "To add these files to Xcode:">>,
       <<"1. Open MoveIt.xcodeproj in Xcode">>,
       <<"2. Right-click on the MoveIt folder in the project navigator">>,
       <<"3. Select 'Add Files to MoveIt...'">>,
       <<"4. Navigate to each folder (Models, Services, etc.) and add all .swift files">>,
       <<"5. Make sure 'Copy items if needed' is UNCHECKED">>,
       <<"6. Make sure 'Add to targets: MoveIt' is CHECKED">>,
       <<"", "Alternatively, drag and drop the folders into Xcode project navigator">> >>

ExitStatus_FailsOnMissing ==
    IF \E k \in 1..Len(out) : out[k].mark = CrossMark THEN 1 ELSE 0

\* generate_file_references() returns and the interpreter exits normally.
ExitStatus == 0

-----------------------------------------------------------------------------
(* Filesystem states a run can start in *)

\* Where the project keeps the file of a dict key.
Location(key) == BaseDir \o <<"MoveIt">> \o key

ProjectDir == BaseDir \o <<"MoveIt">>

Mapped == {Location(key) : key \in Keys(SwiftFilesLiteral)}

\* Paths the script never asks about: a file at its key but outside the
\* project folder, and a file at its display name inside the project folder.
ExtraPaths == {BaseDir \o <<"Models", "Phase.swift">>, ProjectDir \o <<"Phase.swift">>}

RECURSIVE SubsetsUpTo(_, _)
SubsetsUpTo(S, n) ==
    IF n = 0 THEN {{}}
    ELSE LET P == SubsetsUpTo(S, n - 1) IN P \cup {p \cup {x} : p \in P, x \in S}

\* All but at most n mapped files present, or all but at most n absent.
FileChoices(n) ==
    LET few == SubsetsUpTo(Mapped, n) IN few \cup {Mapped \ s : s \in few}

\* A filesystem holds every ancestor directory of what it holds.
FsWith(paths) == UNION {Prefixes(p) : p \in paths \cup {ProjectDir}}

\* The base directory, or one of its ancestors, is missing.
BrokenFs == {Prefixes(SubSeq(ProjectDir, 1, d)) : d \in 1..(Len(ProjectDir) - 1)}

FsChoices(n) ==
    BrokenFs \cup {FsWith(F \cup E) : F \in FileChoices(n), E \in SUBSET ExtraPaths}

-----------------------------------------------------------------------------
(* The run *)

Start(choices) ==
    /\ swift_files = DictFromPairs(SwiftFilesLiteral)
    /\ fs \in choices
    /\ pc = "header"
    /\ i = 1
    /\ j = 1
    /\ out = <<>>
    /\ probed = <<>>
    /\ exitCode = NoExit
    /\ second = FALSE
    /\ prevOut = <<>>
    /\ prevFs = {}

Init == Start(FsChoices(MaxFlip))

\* Lines 43-44.
PrintHeader ==
    /\ pc = "header"
    /\ out' = out \o PrintLines(HeaderPrints[1]) \o PrintLines(HeaderPrints[2])
    /\ pc' = "loop"
    /\ UNCHANGED <<swift_files, fs, i, j, probed, exitCode, second, prevOut, prevFs>>

CheckFile_SilentOnMissing ==
    /\ pc = "loop"
    /\ i <= Len(Items(swift_files))
    /\ LET path      == Items(swift_files)[i][1]
           full_path == FullPath(path)
           target    == ProbePath(full_path)
       IN  /\ probed' = Append(probed, target)
           /\ fs' = FsAfterProbe(target)
           /\ out' = IF Exists(target)
                     THEN Append(out, SuccessLine(full_path))
                     ELSE out
    /\ i' = i + 1
    /\ pc' = IF i = Len(Items(swift_files)) THEN "instructions" ELSE "loop"
    /\ UNCHANGED <<swift_files, j, exitCode, second, prevOut, prevFs>>

CheckFile_PrintsName ==
    /\ pc = "loop"
    /\ i <= Len(Items(swift_files))
    /\ LET path      == Items(swift_files)[i][1]
           name      == Items(swift_files)[i][2]
           full_path == FullPath(path)
           target    == ProbePath(full_path)
       IN  /\ probed' = Append(probed, target)
           /\ fs' = FsAfterProbe(target)
           /\ out' = IF Exists(target)
                     THEN Append(out, SuccessLine(FullPath(<<name>>)))
                     ELSE Append(out, FailureLine(full_path))
    /\ i' = i + 1
    /\ pc' = IF i = Len(Items(swift_files)) THEN "instructions" ELSE "loop"
    /\ UNCHANGED <<swift_files, j, exitCode, second, prevOut, prevFs>>

\* Lines 46-51: one iteration of the for loop.
CheckFile ==
    /\ pc = "loop"
    /\ i <= Len(Items(swift_files))
    /\ LET path      == Items(swift_files)[i][1]
           full_path == FullPath(path)
           target    == ProbePath(full_path)
       IN  /\ probed' = Append(probed, target)
           /\ fs' = FsAfterProbe(target)
           /\ out' = IF Exists(target)
                     THEN Append(out, SuccessLine(full_path))
                     ELSE Append(out, FailureLine(full_path))
    /\ i' = i + 1
    /\ pc' = IF i = Len(Items(swift_files)) THEN "instructions" ELSE "loop"
    /\ UNCHANGED <<swift_files, j, exitCode, second, prevOut, prevFs>>

\* Lines 53-61: one print of the instruction block.
PrintInstruction ==
    /\ pc = "instructions"
    /\ j <= Len(InstructionPrints)
    /\ out' = out \o PrintLines(InstructionPrints[j])
    /\ j' = j + 1
    /\ pc' = IF j = Len(InstructionPrints) THEN "return" ELSE "instructions"
    /\ UNCHANGED <<swift_files, fs, i, probed, exitCode, second, prevOut, prevFs>>

\* Lines 63-64: the call returns and the script ends.
Exit ==
    /\ pc = "return"
    /\ exitCode' = ExitStatus
    /\ pc' = "done"
    /\ UNCHANGED <<swift_files, fs, i, j, out, probed, second, prevOut, prevFs>>

Next == PrintHeader \/ CheckFile \/ PrintInstruction \/ Exit

Spec == Init /\ [][Next]_vars

\* The process is scheduled until it exits.
FairSpec == Spec /\ WF_vars(Next)

-----------------------------------------------------------------------------
(* Two consecutive runs *)

\* The same dict with every display name replaced.
Renamed(d) == [k \in 1..Len(d) |-> <<d[k][1], "Renamed.swift">>]

Toggle(S, x) == IF x \in S THEN S \ {x} ELSE S \cup {x}

\* What may differ when the script is started again: anything it never asks
\* about, or the presence of the first mapped file.
FsVariants ==
    IF ProjectDir \notin fs
    THEN BrokenFs
    ELSE {FsWith((fs \cap Mapped) \cup E) : E \in SUBSET ExtraPaths}
         \cup {FsWith(Toggle(fs \cap Mapped, Location(SwiftFilesLiteral[1][1]))
                      \cup (fs \cap ExtraPaths))}

\* The script is started a second time.
Rerun ==
    /\ pc = "done"
    /\ ~second
    /\ second' = TRUE
    /\ prevOut' = out
    /\ prevFs' = fs
    /\ fs' \in FsVariants
    /\ swift_files' \in {DictFromPairs(SwiftFilesLiteral),
                         Renamed(DictFromPairs(SwiftFilesLiteral))}
    /\ pc' = "header"
    /\ i' = 1
    /\ j' = 1
    /\ out' = <<>>
    /\ probed' = <<>>
    /\ exitCode' = NoExit

NextTwoRuns == Next \/ Rerun

\* The first of the two runs starts from the filesystems one flip closer to
\* "all present" or "all absent".
InitTwoRuns == Start(FsChoices(MaxFlip - 1))

TwoRuns == InitTwoRuns /\ [][NextTwoRuns]_vars

-----------------------------------------------------------------------------
(* Vocabulary of the properties *)

\* Number of entries of the dict literal.
NumEntries == 18

Range(s) == {s[k] : k \in DOMAIN s}

PastLoop == pc \in {"instructions", "return", "done"}

Finished == pc \in {"return", "done"}

IsCheckLine(line) == line.mark # ""

\* The line "<check mark> MoveIt/<key>".
OkLineFor(key) == [mark |-> CheckMark, path |-> <<"MoveIt">> \o key, text |-> ""]

\* The line "<cross mark> MoveIt/<key> - NOT FOUND".
MissLineFor(key) == [mark |-> CrossMark, path |-> <<"MoveIt">> \o key, text |-> " - NOT FOUND"]

\* Any line that names MoveIt/<key> with the given marker.
Names(line, mark, key) == line.mark = mark /\ line.path = <<"MoveIt">> \o key

\* An entry has had its turn once its location was probed; all have after the loop.
Visited(key) == PastLoop \/ Location(key) \in Range(probed)

CheckLines == SelectSeq(out, IsCheckLine)

\* The instruction block, line by line.
InstructionLines ==
    << TextLine(""),
       TextLine("=================================================="),
       TextLine(""),
       TextLine("To add these files to Xcode:"),
       TextLine("1. Open MoveIt.xcodeproj in Xcode"),
       TextLine("2. Right-click on the MoveIt folder in the project navigator"),
       TextLine("3. Select 'Add Files to MoveIt...'"),
       TextLine("4. Navigate to each folder (Models, Services, etc.) and add all .swift files"),
       TextLine("5. Make sure 'Copy items if needed' is UNCHECKED"),
       TextLine("6. Make sure 'Add to targets: MoveIt' is CHECKED"),
       TextLine(""),
       TextLine("Alternatively, drag and drop the folders into Xcode project navigator") >>

\* Index of the last file-check line of the output, 0 if there is none.
LastCheck ==
    LET S == {k \in DOMAIN out : IsCheckLine(out[k])}
    IN  IF S = {} THEN 0 ELSE CHOOSE k \in S : \A m \in S : m <= k

\* Position of a printed path in the dict literal.
LiteralIndex(full_path) ==
    CHOOSE k \in 1..Len(SwiftFilesLiteral) : <<"MoveIt">> \o SwiftFilesLiteral[k][1] = full_path

SameOnMapped(A, B) == \A p \in Mapped : p \in A <=> p \in B

LinesFor(key, o) == {o[k] : k \in {m \in DOMAIN o : o[m].path = <<"MoveIt">> \o key}}

-----------------------------------------------------------------------------
(* Properties *)

\* C1: every entry whose file exists at base directory + "MoveIt/" + key is,
\* once visited, reported by a success line naming MoveIt/<key>, and by no
\* failure line.
C1_FoundIsReported ==
    \A key \in Keys(SwiftFilesLiteral) :
        (Visited(key) /\ Location(key) \in fs)
            => /\ OkLineFor(key) \in Range(out)
               /\ \A k \in DOMAIN out : ~Names(out[k], CrossMark, key)

C1_Witness ==
    /\ pc = "done"
    /\ \E key \in Keys(SwiftFilesLiteral) :
          Location(key) \in fs /\ OkLineFor(key) \in Range(out)
    /\ \E key \in Keys(SwiftFilesLiteral) : Location(key) \notin fs

\* C2: every entry whose file does not exist is, once visited, reported by a
\* failure line naming MoveIt/<key> with the suffix " - NOT FOUND", and by no
\* success line.
C2_MissingIsReported ==
    \A key \in Keys(SwiftFilesLiteral) :
        (Visited(key) /\ Location(key) \notin fs)
            => /\ MissLineFor(key) \in Range(out)
               /\ \A k \in DOMAIN out : ~Names(out[k], CheckMark, key)

C2_Witness ==
    /\ ProjectDir \in fs
    /\ pc = "loop"
    /\ \E key \in Keys(SwiftFilesLiteral) :
          Location(key) \notin fs /\ MissLineFor(key) \in Range(out)
    /\ \E key \in Keys(SwiftFilesLiteral) : Location(key) \in fs

\* C3: after the loop the output holds exactly 18 file-check lines, as many
\* as the dict has entries, and exactly one of them for each entry.
C3_OneLinePerEntry ==
    PastLoop =>
        /\ Len(CheckLines) = NumEntries
        /\ Len(CheckLines) = Len(swift_files)
        /\ \A key \in Keys(SwiftFilesLiteral) :
              Cardinality({k \in DOMAIN out : out[k].path = <<"MoveIt">> \o key}) = 1

C3_Witness ==
    /\ pc = "done"
    /\ Cardinality(fs \cap Mapped) = NumEntries - 1

\* C4: no file-check line follows a line of the instruction block, and when
\* the run has finished the output after the last of the 18 file-check lines
\* is the instruction block, once and verbatim.
C4_InstructionsOnceAtEnd ==
    /\ \A a, b \in DOMAIN out :
          (a < b /\ IsCheckLine(out[b]) /\ ~IsCheckLine(out[a])) => a <= Len(HeaderPrints)
    /\ Finished =>
          /\ LastCheck = Len(HeaderPrints) + NumEntries
          /\ SubSeq(out, LastCheck + 1, Len(out)) = InstructionLines

C4_Witness ==
    /\ pc = "done"
    /\ Mapped \subseteq fs
    /\ out[Len(out)] = InstructionLines[Len(InstructionLines)]

\* C5: the file-check lines come in the order of the dict literal, whichever
\* files exist.
C5_MappingOrder ==
    \A k \in 1..(Len(CheckLines) - 1) :
        LiteralIndex(CheckLines[k].path) < LiteralIndex(CheckLines[k + 1].path)

C5_Witness ==
    /\ pc = "loop"
    /\ Len(CheckLines) = 2
    /\ CheckLines[1].mark = CrossMark
    /\ CheckLines[2].mark = CheckMark

\* C6: when the base directory does not exist, no success line is ever
\* printed, every entry gets its NOT FOUND line, and the run ends normally
\* with the instruction block printed.
C6_MissingBaseDir ==
    BaseDir \notin fs =>
        /\ \A k \in DOMAIN out : out[k].mark # CheckMark
        /\ PastLoop => \A key \in Keys(SwiftFilesLiteral) : MissLineFor(key) \in Range(out)
        /\ pc = "done" =>
              /\ exitCode = 0
              /\ SubSeq(out, LastCheck + 1, Len(out)) = InstructionLines

C6_Witness == BaseDir \notin fs /\ pc = "done" /\ Len(CheckLines) = NumEntries

\* C7: the run only probes the locations of the mapped files, and no step of
\* it changes the filesystem.
C7_FilesystemUntouched ==
    /\ [](\A k \in DOMAIN probed : probed[k] \in Mapped)
    /\ [][fs' = fs]_vars

C7_Witness ==
    /\ pc = "done"
    /\ Len(probed) = NumEntries
    /\ ProjectDir \in fs
    /\ Mapped \cap fs = {}
    /\ ExtraPaths \cap fs = {}

\* C8: every run reaches its end; it gets there with one probe per entry and
\* exit status 0, whatever is missing.
C8_TerminatesWithZero ==
    /\ <>(pc = "done")
    /\ [](pc = "done" => exitCode = 0 /\ Len(probed) = NumEntries)
    /\ [][i' >= i /\ j' >= j]_vars

C8_Witness ==
    /\ pc = "done"
    /\ exitCode = 0
    /\ ProjectDir \in fs
    /\ Cardinality(Mapped \ fs) = 1

\* C9: the keys of the dict are pairwise different and relative, and no step
\* of the run changes the dict.
C9_MappingStatic ==
    /\ [](/\ Cardinality(Keys(swift_files)) = Len(swift_files)
          /\ \A key \in Keys(swift_files) : key # <<>> /\ key[1] # "")
    /\ [][swift_files' = swift_files]_vars

C9_Witness == pc = "instructions" /\ i = Len(swift_files) + 1 /\ j = 2

\* C10: a second run whose filesystem agrees with the first on the mapped
\* locations prints the same output, whatever else differs and whatever the
\* display names are; and the lines of an entry are the same in both runs
\* whenever that entry's own location agrees.
C10_OutputDependsOnMappedOnly ==
    (second /\ pc = "done") =>
        /\ SameOnMapped(fs, prevFs) => out = prevOut
        /\ \A key \in Keys(SwiftFilesLiteral) :
              (Location(key) \in fs <=> Location(key) \in prevFs)
                  => LinesFor(key, out) = LinesFor(key, prevOut)

C10_Witness ==
    /\ second
    /\ pc = "done"
    /\ SameOnMapped(fs, prevFs)
    /\ fs # prevFs
    /\ swift_files # DictFromPairs(SwiftFilesLiteral)
    /\ Mapped \cap fs # {}

====
